---- MODULE Spec2Model ----
(***************************************************************************)
(* The example scripts of the repository as one state machine.  A          *)
(* behaviour is one execution of one script: the script is chosen in       *)
(* Init together with the environment it is started in.  Every script is   *)
(* written down as the sequence of its steps (load the .env file, read     *)
(* and check the key, construct agents, call the runner, enter the         *)
(* interactive loop); the actions below execute such a sequence.  The      *)
(* agents SDK is the environment: a run returns, raises, calls tools and   *)
(* guardrail functions as the SDK does, with the language model's answers  *)
(* chosen nondeterministically.                                            *)
(***************************************************************************)
EXTENDS Integers, Sequences, FiniteSets, TLC

\* ------------------------------------------------------------------ bounds
\* lines typed by the user in one interactive session
MaxLines == 2
\* tool calls the language model makes in one run
MaxToolCalls == 1
\* pieces of a text handed to an input filter
MaxText == 3
\* lines of a .env file
MaxFile == 2

\* ------------------------------------------------------------ environment
\* os.getenv / os.environ.get of the key variable: None, '' or a real key
KeyValues == {"none", "empty", "set"}
\* the key's line in the .env file: no file or no such line, KEY=, KEY=sk-...
FileValues == {"absent", "empty", "set"}

\* load_dotenv() keeps a variable the process already has (override=False)
load_dotenv(e, f) == IF e # "none" THEN e ELSE IF f = "absent" THEN "none" ELSE f

\* the lines of a .env file, every line as the pieces of its text
EnvLines ==
  {<< >>, << " " >>,
   << "#", "comment" >>, << " ", "#", "comment" >>,
   << "OPENAI_API_KEY", "=", "sk-1" >>,
   << "OPENAI_API_KEY", "=" >>,
   << " ", "OPENAI_API_KEY", "=", "sk-2", " " >>,
   << "OPENAI_API_KEY", " ", "=", " ", "sk-1" >>,
   << "OPENAI_MODEL", "=", "a", "=", "b" >>,
   << "OPENAI_API_KEY" >>,
   << "=", "sk-1" >>}
\* open('.env', 'r'): FileNotFoundError, or the lines of the file
EnvFiles ==
  {[exists |-> FALSE, lines |-> << >>]}
  \cup {[exists |-> TRUE, lines |-> l] :
          l \in UNION {[1..n -> EnvLines] : n \in 0..MaxFile}}
\* os.environ of the process, e telling what it has for the key
Environ(e) ==
  LET others == (<< "PATH" >> :> << "/bin" >>)
                @@ (<< "OPENAI_MODEL" >> :> << "gpt-4o" >>)
  IN CASE e = "none" -> others
       [] e = "empty" -> (<< "OPENAI_API_KEY" >> :> << >>) @@ others
       [] OTHER -> (<< "OPENAI_API_KEY" >> :> << "sk-0" >>) @@ others
\* what os.environ.get("OPENAI_API_KEY") is in environ
KeyValue(environ) ==
  IF << "OPENAI_API_KEY" >> \notin DOMAIN environ THEN "none"
  ELSE IF environ[<< "OPENAI_API_KEY" >>] = << >> THEN "empty" ELSE "set"

\* line.strip()
strip(line) ==
  LET text == {i \in DOMAIN line : line[i] # " "}
  IN IF text = {} THEN << >>
     ELSE SubSeq(line, CHOOSE i \in text : \A k \in text : i <= k,
                 CHOOSE i \in text : \A k \in text : i >= k)

\* load_env_from_file(): every line of the file that is not blank and no
\* comment is split at its first '=' and assigned to os.environ; the
\* unpacking raises ValueError when there is no '=', os.environ raises
\* OSError for the empty name; only FileNotFoundError is caught
load_env_from_file(environ, f) ==
  LET assign(r, raw) ==
        LET line == strip(raw)
            cuts == {i \in DOMAIN line : line[i] = "="}
            first == CHOOSE i \in cuts : \A k \in cuts : i <= k
        IN IF r.raised # "none" THEN r
           ELSE IF line = << >> \/ Head(line) = "#" THEN r
           ELSE IF cuts = {} THEN [r EXCEPT !.raised = "ValueError"]
           ELSE IF first = 1 THEN [r EXCEPT !.raised = "OSError"]
           ELSE [r EXCEPT !.environ =
                   (SubSeq(line, 1, first - 1) :>
                      SubSeq(line, first + 1, Len(line))) @@ r.environ]
      read[i \in 0..Len(f.lines)] ==
        IF i = 0 THEN [environ |-> environ, raised |-> "none", printed |-> ""]
        ELSE assign(read[i - 1], f.lines[i])
  IN IF f.exists THEN read[Len(f.lines)]
     ELSE [environ |-> environ, raised |-> "none",
           printed |-> "Warning: .env file not found"]

KeyMissingNoneOnly(k) == k = "none"
\* `if not key:` is true for None and for the empty string
KeyMissing(k) == k # "set"

\* ------------------------------------------------------------------ steps
\* the agent of a step in a loop body that the user's selection decides
Current == "current_agent"
\* the context of such a step: the user the loop has selected
Selected == -1

Step(op) ==
  [op |-> op, agent |-> "", guards |-> {}, gkind |-> "none", tools |-> {},
   catch |-> << >>, ctx |-> 0, kind |-> "", cond |-> "", awaited |-> TRUE,
   choices |-> << >>, body |-> << >>]

LoadDotenv == Step("load_dotenv")
LoadEnvFromFile == Step("load_env_from_file")
GetKey == Step("getenv")
CheckKey == Step("check")
SetDefaultKey == Step("set_default_openai_key")
SetEnviron == Step("environ")
Client == Step("AsyncOpenAI")
NewAgent(name) == [Step("Agent") EXCEPT !.agent = name]
GuardedAgent(name, gkind, guards) ==
  [Step("Agent") EXCEPT !.agent = name, !.gkind = gkind, !.guards = guards]
ToolAgent(name, tools) == [Step("Agent") EXCEPT !.agent = name, !.tools = tools]
\* UserInfo(...) or UserContext(...): a context object of the script
NewContext(uid) == [Step("context") EXCEPT !.ctx = uid]
SampleUsers == Step("create_sample_users")

\* asyncio.create_task(Runner.run(...)): the call is not awaited
RunDetached(agent, catch) ==
  [Step("run") EXCEPT !.agent = agent, !.catch = catch, !.awaited = FALSE]
\* result = await Runner.run(agent, ...), inside `try` when catch is not empty
Run(agent, catch) == [Step("run") EXCEPT !.agent = agent, !.catch = catch]
RunCtx(agent, catch, uid) == [Run(agent, catch) EXCEPT !.ctx = uid]
\* Runner.run_streamed(agent, ...) and the `async for` over its events
RunStreamed(agent) == [Run(agent, << >>) EXCEPT !.kind = "streamed"]
Loop(kind, body) == [Step("loop") EXCEPT !.kind = kind, !.body = body]
PlainLoop(agent) == Loop("plain", << Run(agent, << >>) >>)
\* the loop of a guardrail script under `except Exception`
TripwireLoopBroad(agent, exception) ==
  Loop("tripwire", << Run(agent, << "Exception" >>) >>)
\* the loop of a guardrail script: the run is inside try/except <exception>
TripwireLoop(agent, exception) ==
  Loop("tripwire", << Run(agent, << exception >>) >>)
\* the loop body under `except ValueError` only
CatchLoopNarrow(agent) == Loop("catch", << Run(agent, << "ValueError" >>) >>)
\* the loop body inside try/except Exception
CatchLoop(agent) == Loop("catch", << Run(agent, << "Exception" >>) >>)
SelectLoop(choices) ==
  [Loop("select", << Run(Current, << >>) >>) EXCEPT !.choices = choices]

\* current_user = random.choice(users)
ChooseUser == Step("choose_user")
\* current_agent = base_agent
SetCurrent(agent) == [Step("set_current") EXCEPT !.agent = agent]
\* thread_id = str(uuid.uuid4()); conversation_history = None;
\* with trace(workflow_name=..., group_id=thread_id):
NewThread == Step("new_thread")

RECURSIVE Rep(_, _)
Rep(n, s) == IF n = 0 THEN << >> ELSE s \o Rep(n - 1, s)

\* --------------------------------------------------------------- scripts
\* Every Gemini script starts the same way: load_dotenv(), os.getenv,
\* `if not gemini_api_key: raise ValueError`, then AsyncOpenAI(api_key=...),
\* the model and the RunConfig.
GeminiHeader == << LoadDotenv, GetKey, CheckKey, Client >>
\* The OpenAI scripts: load_dotenv(), os.environ.get, set_default_openai_key.
OpenAIHeader == << LoadDotenv, GetKey, SetDefaultKey >>

basicopenaiagent ==
  << LoadEnvFromFile, GetKey, SetDefaultKey, NewAgent("agent"),
     PlainLoop("agent") >>

hello_world_agents ==
  << LoadDotenv, GetKey, CheckKey, NewAgent("agent"), Run("agent", << >>) >>

helloworld ==
  << LoadDotenv, GetKey, CheckKey, SetEnviron, NewAgent("agent"),
     Run("agent", << >>) >>

agents_03_basicconfig ==
  OpenAIHeader \o << ToolAgent("weather_haiku_agent", {"get_weather"}),
                     Run("weather_haiku_agent", << >>) >>

agents_basicconfig ==
  << LoadDotenv, GetKey, ToolAgent("weather_haiku_agent", {"get_weather"}), SetDefaultKey,
     Run("weather_haiku_agent", << >>) >>

PersonalizedTools ==
  {"fetch_user_profile", "fetch_user_preferences", "fetch_purchase_history",
   "update_user_preference", "check_subscription_features"}

\* the handlers of the interactive loop's try statement, in order; the runs
\* before the loop are outside any try, where the handlers change nothing
\* about a run that returns
Try == << "ValueError", "Exception" >>

\* Runner.run on `agent` before create_personalized_agent has assigned it
interact_with_user_run_first(uid, catch) ==
  << RunCtx("agent", catch, uid), ToolAgent("agent", PersonalizedTools) >>
\* interact_with_user: create_personalized_agent(user_info), then Runner.run
interact_with_user(uid, catch) ==
  << ToolAgent("agent", PersonalizedTools), RunCtx("agent", catch, uid) >>

agents_22_localcontext ==
  << LoadDotenv, GetKey, SetDefaultKey,
     NewContext(123), ToolAgent("basic_assistant", {"fetch_user_age"}),
     RunCtx("basic_assistant", << >>, 123), SampleUsers >>
  \o Rep(6, interact_with_user(101, << >>))
  \o Rep(6, interact_with_user(202, << >>))
  \o Rep(6, interact_with_user(303, << >>))
  \o << Loop("localctx", interact_with_user(Selected, Try)) >>

openai_01_helloworld ==
  << LoadDotenv, NewAgent("agent"), Run("agent", << >>) >>

openai_20_recommendedprompts ==
  OpenAIHeader
  \o << NewAgent("billing_agent"), NewAgent("support_agent"),
        NewAgent("standard_agent"),
        Run("billing_agent", << >>), Run("support_agent", << >>),
        Run("standard_agent", << >>),
        SelectLoop(<< "billing_agent", "support_agent", "standard_agent" >>) >>

\* joke_workshop: generate, evaluate and parse the rating, and when the
\* rating is below 7 improve and evaluate again
openai_joke_workshop ==
  << Run("joke_agent", << >>),
     [Run("rating_agent", << >>) EXCEPT !.kind = "evaluate"],
     [Run("improvement_agent", << >>) EXCEPT !.cond = "rating < 7"],
     [Run("rating_agent", << >>) EXCEPT !.cond = "rating < 7"] >>

openai_21_highleveltraces ==
  OpenAIHeader
  \o << NewAgent("joke_agent"), NewAgent("rating_agent"),
        NewAgent("improvement_agent") >>
  \o Rep(3, openai_joke_workshop)
  \o << Loop("workshop", openai_joke_workshop) >>

G23 ==
  {"math_homework_guardrail", "code_assignment_guardrail", "essay_writing_guardrail"}

openai_23_guardrails ==
  OpenAIHeader
  \o << NewAgent("math_guardrail_agent"), NewAgent("code_guardrail_agent"),
        NewAgent("essay_guardrail_agent"),
        GuardedAgent("tutor_agent", "input", G23),
        GuardedAgent("simple_agent", "input", {"math_homework_guardrail"}) >>
  \o Rep(2, << Run("simple_agent", << "InputGuardrailTripwireTriggered" >>) >>)
  \o Rep(10, << Run("tutor_agent", << "InputGuardrailTripwireTriggered" >>) >>)
  \o << TripwireLoop("tutor_agent", "InputGuardrailTripwireTriggered") >>

O24 ==
  {"math_output_guardrail", "code_output_guardrail", "personal_info_output_guardrail"}

openai_24_outputguardrails ==
  OpenAIHeader
  \o << NewAgent("math_guardrail_agent"), NewAgent("code_guardrail_agent"),
        NewAgent("personal_info_guardrail_agent"),
        GuardedAgent("tutor_agent", "output", O24),
        GuardedAgent("simple_agent", "output", {"math_output_guardrail"}) >>
  \o Rep(2, << Run("simple_agent", << "OutputGuardrailTripwireTriggered" >>) >>)
  \o Rep(10, << Run("tutor_agent", << "OutputGuardrailTripwireTriggered" >>) >>)
  \o << TripwireLoop("tutor_agent", "OutputGuardrailTripwireTriggered") >>

openai_25_models ==
  OpenAIHeader
  \o << NewAgent("spanish_agent"), NewAgent("french_agent"),
        NewAgent("german_agent"), NewAgent("triage_agent"),
        NewAgent("creative_agent"),
        Client, NewAgent("technical_agent"),
        NewAgent("gpt35_agent"), NewAgent("gpt4o_agent"),
        Run("gpt35_agent", << >>), Run("gpt4o_agent", << >>),
        Run("spanish_agent", << >>), Run("french_agent", << >>),
        Run("german_agent", << >>) >>
  \o Rep(3, << Run("triage_agent", << >>) >>)
  \o << Run("creative_agent", << >>), Run("technical_agent", << >>),
        SelectLoop(<< "triage_agent", "creative_agent", "technical_agent" >>) >>

\* run_text_demo of the voice script: the branch main() takes when numpy,
\* sounddevice or agents.voice is missing
openai_26_text ==
  OpenAIHeader
  \o << ToolAgent("spanish_agent", {"get_weather"}),
        ToolAgent("text_agent", {"get_weather"}),
        PlainLoop("text_agent") >>

\* run_voice_demo: create_voice_agents(), then VoicePipeline(...) and
\* pipeline.run, which runs voice_agent, inside try/except Exception
\* it returns at once when a flag is false
openai_26_voice(deps, module) ==
  OpenAIHeader
  \o IF ~deps \/ ~module THEN << >>
     ELSE << ToolAgent("spanish_agent", {"get_weather"}),
             ToolAgent("voice_agent", {"get_weather"}),
             [Run("voice_agent", << "Exception" >>) EXCEPT !.kind = "voice"] >>

openai_26_main_either(deps, module) ==
  IF deps \/ module THEN openai_26_voice(deps, module) ELSE openai_26_text
\* main() of 26_basicvoiceagent picks its demo from the two import flags
openai_26_main(deps, module) ==
  IF deps /\ module THEN openai_26_voice(deps, module) ELSE openai_26_text

gemini_02_detailagent ==
  GeminiHeader
  \o << NewAgent("guardrail_agent"), NewAgent("math_tutor_agent"),
        NewAgent("history_tutor_agent"),
        GuardedAgent("triage_agent", "input", {"homework_guardrail"}),
        Run("triage_agent", << >>), Run("triage_agent", << >>) >>

gemini_03_basicconfig ==
  GeminiHeader \o << ToolAgent("weather_haiku_agent", {"get_weather"}),
                     Run("weather_haiku_agent", << >>) >>

gemini_04_basiccontext ==
  GeminiHeader \o << NewAgent("user_context_agent"),
                     NewContext(123), NewContext(456),
                     RunCtx("user_context_agent", << >>, 123),
                     RunCtx("user_context_agent", << >>, 456) >>

gemini_05_basicoutput ==
  GeminiHeader \o << NewAgent("calendar_extractor"),
                     ToolAgent("advanced_calendar_extractor", {"validate_date"}),
                     Run("calendar_extractor", << >>),
                     Run("advanced_calendar_extractor", << >>) >>

gemini_06_basichandsoff ==
  GeminiHeader
  \o << NewAgent("booking_agent"), NewAgent("refund_agent"),
        NewAgent("triage_agent") >>
  \o Rep(3, << Run("triage_agent", << >>) >>)
  \o << PlainLoop("triage_agent") >>

gemini_07_basicdynamicinstructions ==
  GeminiHeader
  \o << NewAgent("dynamic_agent"), NewContext(1), NewContext(2), NewContext(3),
        RunCtx("dynamic_agent", << >>, 1), RunCtx("dynamic_agent", << >>, 2),
        RunCtx("dynamic_agent", << >>, 3), ChooseUser >>
  \o << Loop("switchuser", << RunCtx("dynamic_agent", << >>, Selected) >>) >>

gemini_08_basiccloning ==
  GeminiHeader
  \o << NewAgent("base_agent"), NewAgent("pirate_agent"), NewAgent("robot_agent"),
        NewAgent("poet_agent"), NewAgent("emoji_pirate_agent"),
        Run("base_agent", << >>), Run("pirate_agent", << >>),
        Run("robot_agent", << >>), Run("poet_agent", << >>),
        Run("emoji_pirate_agent", << >>), SetCurrent("base_agent"),
        Loop("switch", << Run(Current, << >>) >>) >>

gemini_09_running ==
  GeminiHeader \o << NewAgent("agent"), NewThread >>
  \o Rep(3, << Run("agent", << >>) >>) \o << NewThread >>
  \o Rep(2, << Run("agent", << >>) >>)
  \o << NewThread, Loop("new", << Run("agent", << >>) >>) >>

gemini_10_streamingrawresponse ==
  GeminiHeader
  \o << NewAgent("agent"), RunStreamed("agent"),
        NewAgent("storyteller"), RunStreamed("storyteller"),
        Loop("plain", << RunStreamed("agent") >>) >>

gemini_11_runitemandagentsevents ==
  GeminiHeader
  \o << NewAgent("agent"), RunStreamed("agent"),
        NewAgent("evaluator_agent"), NewAgent("improver_agent"),
        RunStreamed("agent"), RunStreamed("evaluator_agent"),
        RunStreamed("improver_agent") >>

gemini_12_hostedtools ==
  GeminiHeader
  \o << NewAgent("research_agent"), Run("research_agent", << "Exception" >>),
        CatchLoop("research_agent") >>

gemini_13_functiontools ==
  GeminiHeader \o << NewAgent("agent"), Step("print_tool_info") >>
  \o Rep(3, << Run("agent", << >>) >>)
  \o << PlainLoop("agent") >>

gemini_14_customfunctiontools ==
  GeminiHeader \o << NewAgent("agent") >>
  \o Rep(3, << Run("agent", << "Exception" >>) >>)
  \o << CatchLoop("agent") >>

gemini_15_agentsastools ==
  GeminiHeader
  \o << NewAgent("spanish_agent"), NewAgent("french_agent"),
        NewAgent("german_agent"), NewAgent("orchestrator_agent"),
        NewAgent("advanced_assistant"),
        Run("orchestrator_agent", << >>), Run("orchestrator_agent", << >>),
        Run("advanced_assistant", << >>),
        PlainLoop("advanced_assistant") >>

gemini_16_basichandsoff ==
  GeminiHeader
  \o << NewAgent("billing_agent"), NewAgent("refund_agent"),
        NewAgent("technical_agent"), NewAgent("triage_agent") >>
  \o Rep(4, << Run("triage_agent", << >>) >>)
  \o << PlainLoop("triage_agent") >>

gemini_17_customizinghandsoff ==
  GeminiHeader
  \o << NewAgent("sales_agent"), NewAgent("support_agent"),
        NewAgent("product_specialist"), NewAgent("main_agent") >>
  \o Rep(4, << Run("main_agent", << >>) >>)
  \o << PlainLoop("main_agent") >>

gemini_18_handsoffinputs ==
  GeminiHeader
  \o << NewAgent("escalation_agent"), NewAgent("premium_agent"),
        NewAgent("technical_agent"), NewAgent("main_agent") >>
  \o Rep(3, << Run("main_agent", << "Exception" >>) >>)
  \o << CatchLoop("main_agent") >>

gemini_19_inputfilters ==
  GeminiHeader
  \o << NewAgent("faq_agent"), NewAgent("technical_agent"),
        NewAgent("billing_agent"), NewAgent("main_agent"),
        Step("demonstrate_filters") >>
  \o Rep(3, << Run("main_agent", << >>) >>)
  \o << PlainLoop("main_agent") >>

gemini_20_recommendedprompts ==
  GeminiHeader
  \o << NewAgent("billing_agent"), NewAgent("support_agent"),
        NewAgent("standard_agent"),
        Run("billing_agent", << >>), Run("support_agent", << >>),
        Run("standard_agent", << >>),
        SelectLoop(<< "billing_agent", "support_agent", "standard_agent" >>) >>

\* joke_workshop: generate, evaluate, improve
gemini_joke_workshop ==
  << Run("joke_agent", << >>), Run("rating_agent", << >>),
     Run("improvement_agent", << >>) >>

gemini_21_highleveltraces ==
  GeminiHeader
  \o << NewAgent("joke_agent"), NewAgent("rating_agent"),
        NewAgent("improvement_agent") >>
  \o Rep(3, gemini_joke_workshop)
  \o << Loop("workshop", gemini_joke_workshop) >>

UserContextTools ==
  {"fetch_user_profile", "fetch_user_preferences", "fetch_purchase_history",
   "get_subscription_features", "update_user_preference"}

gemini_22_localcontext ==
  GeminiHeader
  \o << ToolAgent("user_context_agent", UserContextTools),
        NewContext(12345), RunCtx("user_context_agent", << >>, 12345),
        SampleUsers >>
  \o Rep(6, << RunCtx("user_context_agent", << >>, 1) >>)
  \o Rep(6, << RunCtx("user_context_agent", << >>, 2) >>)
  \o Rep(6, << RunCtx("user_context_agent", << >>, 3) >>)
  \o << Loop("localctx", << RunCtx("user_context_agent", Try, Selected) >>) >>

gemini_23_guardrails ==
  GeminiHeader
  \o << NewAgent("math_guardrail_agent"), NewAgent("code_guardrail_agent"),
        NewAgent("essay_guardrail_agent"),
        GuardedAgent("tutor_agent", "input", G23) >>
  \o Rep(6, << Run("tutor_agent", << "InputGuardrailTripwireTriggered" >>) >>)
  \o Rep(15, << Run("tutor_agent", << "InputGuardrailTripwireTriggered" >>) >>)
  \o << TripwireLoop("tutor_agent", "InputGuardrailTripwireTriggered") >>

G24 == {"math_solution_guardrail", "code_solution_guardrail", "essay_guardrail"}

gemini_24_outputguardrails ==
  GeminiHeader
  \o << NewAgent("math_output_agent"), NewAgent("code_output_agent"),
        NewAgent("essay_output_agent"),
        GuardedAgent("tutor_agent", "output", G24) >>
  \o Rep(6, << Run("tutor_agent", << "OutputGuardrailTripwireTriggered" >>) >>)
  \o Rep(15, << Run("tutor_agent", << "OutputGuardrailTripwireTriggered" >>) >>)
  \o << TripwireLoop("tutor_agent", "OutputGuardrailTripwireTriggered") >>

\* benchmark_models: for every query and model, Agent(...) then Runner.run
benchmark_models ==
  Rep(9, << NewAgent("benchmark_agent"), Run("benchmark_agent", << >>) >>)

gemini_25_models ==
  GeminiHeader
  \o << NewAgent("spanish_agent"), NewAgent("english_agent"),
        NewAgent("french_agent"), NewAgent("triage_agent"),
        NewAgent("creative_agent") >>
  \o Rep(3, << Run("triage_agent", << >>) >>)
  \o benchmark_models
  \o << Run("creative_agent", << >>), NewAgent("standard_agent"),
        Run("standard_agent", << >>),
        PlainLoop("triage_agent") >>

Scripts ==
  {"basicopenaiagent", "hello-world-agents", "helloworld",
   "agents/03_basicconfig", "agents/basicconfig", "agents/22_localcontext",
   "01Helloworld", "20RecommendedPrompts", "21HighLevelTraces", "23Guardrails",
   "24OutputGuardrails", "25Models", "26_basicvoiceagent",
   "02_detailagent", "03_basicconfig", "04_basiccontext", "05_basicoutput",
   "06_basichandsoff", "07_basicdynamicinstructions", "08_basiccloning",
   "09_running", "10_streamingrawresponse", "11_runitemandagentsevents",
   "12_hostedtools", "13_functiontools", "14_customfunctiontools",
   "15_agentsastools", "16_basichandsoff", "17_customizinghandsoff",
   "18_handsoffinputs", "19_inputfilters", "20_recommendedprompts",
   "21_highleveltraces", "22_localcontext", "23_guardrails",
   "24_outputguardrails", "25_models"}

\* the script's steps; main() of the voice script picks its demo from the
\* two import flags
Program(s, deps, module) ==
  CASE s = "basicopenaiagent" -> basicopenaiagent
    [] s = "hello-world-agents" -> hello_world_agents
    [] s = "helloworld" -> helloworld
    [] s = "agents/03_basicconfig" -> agents_03_basicconfig
    [] s = "agents/basicconfig" -> agents_basicconfig
    [] s = "agents/22_localcontext" -> agents_22_localcontext
    [] s = "01Helloworld" -> openai_01_helloworld
    [] s = "20RecommendedPrompts" -> openai_20_recommendedprompts
    [] s = "21HighLevelTraces" -> openai_21_highleveltraces
    [] s = "23Guardrails" -> openai_23_guardrails
    [] s = "24OutputGuardrails" -> openai_24_outputguardrails
    [] s = "25Models" -> openai_25_models
    [] s = "26_basicvoiceagent" -> openai_26_main(deps, module)
    [] s = "02_detailagent" -> gemini_02_detailagent
    [] s = "03_basicconfig" -> gemini_03_basicconfig
    [] s = "04_basiccontext" -> gemini_04_basiccontext
    [] s = "05_basicoutput" -> gemini_05_basicoutput
    [] s = "06_basichandsoff" -> gemini_06_basichandsoff
    [] s = "07_basicdynamicinstructions" -> gemini_07_basicdynamicinstructions
    [] s = "08_basiccloning" -> gemini_08_basiccloning
    [] s = "09_running" -> gemini_09_running
    [] s = "10_streamingrawresponse" -> gemini_10_streamingrawresponse
    [] s = "11_runitemandagentsevents" -> gemini_11_runitemandagentsevents
    [] s = "12_hostedtools" -> gemini_12_hostedtools
    [] s = "13_functiontools" -> gemini_13_functiontools
    [] s = "14_customfunctiontools" -> gemini_14_customfunctiontools
    [] s = "15_agentsastools" -> gemini_15_agentsastools
    [] s = "16_basichandsoff" -> gemini_16_basichandsoff
    [] s = "17_customizinghandsoff" -> gemini_17_customizinghandsoff
    [] s = "18_handsoffinputs" -> gemini_18_handsoffinputs
    [] s = "19_inputfilters" -> gemini_19_inputfilters
    [] s = "20_recommendedprompts" -> gemini_20_recommendedprompts
    [] s = "21_highleveltraces" -> gemini_21_highleveltraces
    [] s = "22_localcontext" -> gemini_22_localcontext
    [] s = "23_guardrails" -> gemini_23_guardrails
    [] s = "24_outputguardrails" -> gemini_24_outputguardrails
    [] s = "25_models" -> gemini_25_models

\* ------------------------------------------------------------ user input
\* the lines the user types at a prompt
Lines ==
  {"exit", "Exit", "hello", "new", "switch user", "switch pirate",
   "switch nobody", "switch pirate switch robot", "2", "7", "202"}

\* str.lower() on the lines and tiers used here
Lower(l) ==
  CASE l = "Exit" -> "exit"
    [] l = "Premium" -> "premium"
    [] l = "FREE" -> "free"
    [] OTHER -> l

\* user_input == 'exit', without lower()
IsExitCaseSensitive(l) == l = "exit"
\* user_input.lower() == 'exit'
IsExit(l) == Lower(l) = "exit"

\* int(s): the number, or ValueError (ok is FALSE); blanks around the
\* digits are ignored
ParseInt(l) ==
  CASE l = "2" -> [ok |-> TRUE, value |-> 2]
    [] l \in {"7", " 7"} -> [ok |-> TRUE, value |-> 7]
    [] l = "202" -> [ok |-> TRUE, value |-> 202]
    [] l = " 8" -> [ok |-> TRUE, value |-> 8]
    [] l = " 3" -> [ok |-> TRUE, value |-> 3]
    [] OTHER -> [ok |-> FALSE, value |-> 0]

\* the rating agent's answers: the lines of the text, every line as the
\* parts that ':' cuts it into
Evaluations ==
  {<< << "Rating", " 8" >>, << "Good timing." >> >>,
   << << "Rating", " 7" >> >>,
   << << "Rating", " 3" >>, << "Too long." >> >>,
   << << "Rating", " 8", " a good one" >> >>,
   << << "8/10" >> >>,
   << << "Rating", " 8/10" >> >>,
   << << "Great joke!" >>, << "Rating", " 8" >> >>}

ParseRatingDefaultSeven(evaluation) ==
  LET rating_line == evaluation[1]
  IN IF Len(rating_line) >= 2 /\ ParseInt(rating_line[2]).ok
     THEN ParseInt(rating_line[2]).value ELSE 7
\* rating_line = evaluation.split('\n')[0];
\* int(rating_line.split(':')[1].strip()), and 5 when that raises
ParseRating(evaluation) ==
  LET rating_line == evaluation[1]
  IN IF Len(rating_line) >= 2 /\ ParseInt(rating_line[2]).ok
     THEN ParseInt(rating_line[2]).value ELSE 5

\* ------------------------------------------------------------ exceptions
InputTrip == "InputGuardrailTripwireTriggered"
OutputTrip == "OutputGuardrailTripwireTriggered"
\* what a run can raise besides a tripwire: an API or network error, and a
\* ValueError out of the SDK
Errors == {"Exception", "ValueError"}

\* `except c` catches e: every exception here derives from Exception
IsInstance(e, c) == e = c \/ c = "Exception"

RECURSIVE Handler(_, _)
\* the first `except` clause of a try statement matching e, or "none"
Handler(handlers, e) ==
  IF handlers = << >> THEN "none"
  ELSE IF IsInstance(e, Head(handlers)) THEN Head(handlers)
  ELSE Handler(Tail(handlers), e)

\* what the handler prints
HandlerPrints(kind, handler) ==
  CASE handler = InputTrip -> "guardrail message"
    [] handler = OutputTrip -> "guardrail message"
    [] handler = "ValueError" -> "Please enter a valid user ID."
    [] OTHER -> "error"

\* --------------------------------------------------------- context objects
\* the preference the sample queries update: "Update my theme preference"
PrefKeys == {"theme"}
\* the values the language model passes to update_user_preference
NewValues == {"blue"}

UserInfo(tier, theme) ==
  [tier |-> tier, preferences |-> [k \in PrefKeys |-> theme]]

\* UserContext(...) of 04_basiccontext and 07_basicdynamicinstructions has
\* no tier and no preferences
UserContext == UserInfo("none", "unset")

\* the context object a script constructs directly
NewContextObject(s, uid) ==
  CASE s = "agents/22_localcontext" -> UserInfo("free", "unset")
    [] s = "22_localcontext" -> UserInfo("premium", "dark")
    [] OTHER -> UserContext

agents_create_sample_users ==
  (101 :> UserInfo("free", "light")) @@
  (202 :> UserInfo("premium", "dark")) @@
  (303 :> UserInfo("enterprise", "branded"))

gemini_create_sample_users ==
  (1 :> UserInfo("free", "light")) @@
  (2 :> UserInfo("basic", "auto")) @@
  (3 :> UserInfo("premium", "dark"))

create_sample_users(s) ==
  IF s = "agents/22_localcontext" THEN agents_create_sample_users
  ELSE gemini_create_sample_users

\* user.preferences[key] = value, in a tool that writes the tier as well
update_user_preference_and_tier(user, key, value) ==
  [user EXCEPT !.preferences[key] = value, !.tier = "premium"]
\* user.preferences[key] = value
update_user_preference(user, key, value) ==
  [user EXCEPT !.preferences[key] = value]

\* -------------------------------------------------------------- functions
\* A text is the sequence of its pieces; the pieces are chosen so that the
\* searched substrings occur in a text exactly where their pieces do.
Note ==
  "\n\n[Note: Some sensitive information has been redacted for security purposes.]"
Pieces ==
  {"credit", " ", "card", "SSN", "ssn", "password", "account", "number", Note}
sample_input ==
  << "I need help with my ", "account", " ", "number", " 12345-6789. My ",
     "credit", " ", "card", " isn't working and I forgot my ", "password", "." >>
\* the texts a filter is applied to
Texts == UNION {[1..n -> Pieces] : n \in 0..MaxText} \cup {sample_input}

\* str.replace(old, new): every occurrence, found from the left, not
\* overlapping
RECURSIVE Replace(_, _, _)
Replace(s, old, new) ==
  IF Len(s) < Len(old) THEN s
  ELSE IF SubSeq(s, 1, Len(old)) = old
       THEN new \o Replace(SubSeq(s, Len(old) + 1, Len(s)), old, new)
       ELSE << Head(s) >> \o Replace(Tail(s), old, new)

sanitize_sensitive_info_always_noted(input_text) ==
  LET s1 == Replace(input_text, << "credit", " ", "card" >>, << "[PAYMENT METHOD]" >>)
      s2 == Replace(s1, << "SSN" >>, << "[REDACTED ID]" >>)
      s3 == Replace(s2, << "password" >>, << "[CREDENTIALS]" >>)
      sanitized == Replace(s3, << "account", " ", "number" >>, << "[ACCOUNT ID]" >>)
  IN sanitized \o << Note >>
sanitize_sensitive_info(input_text) ==
  LET s1 == Replace(input_text, << "credit", " ", "card" >>, << "[PAYMENT METHOD]" >>)
      s2 == Replace(s1, << "SSN" >>, << "[REDACTED ID]" >>)
      s3 == Replace(s2, << "password" >>, << "[CREDENTIALS]" >>)
      sanitized == Replace(s3, << "account", " ", "number" >>, << "[ACCOUNT ID]" >>)
  IN IF sanitized # input_text
     THEN sanitized \o << Note >>
     ELSE sanitized

\* the features dictionary of get_subscription_features
features ==
  [free |-> << "Basic access to platform", "Limited storage (5GB)",
               "Standard support", "Access to community forums" >>,
   basic |-> << "Full access to platform", "Increased storage (50GB)",
                "Priority email support", "No advertisements",
                "Monthly newsletter" >>,
   premium |-> << "Full access to all features", "Unlimited storage",
                  "24/7 priority support", "Early access to new features",
                  "Exclusive content", "Personalized recommendations" >>]

get_subscription_features_exact(user) ==
  IF user.tier \notin DOMAIN features
  THEN << "Unknown subscription tier: ", user.tier >>
  ELSE << "Features for ", user.tier, " tier:" >> \o features[user.tier]
\* geminiagents/22_localcontext.py; the title shows the tier as it is
\* stored (capitalize() is left out)
get_subscription_features(user) ==
  LET tier == Lower(user.tier)
  IN IF tier \notin DOMAIN features
     THEN << "Unknown subscription tier: ", user.tier >>
     ELSE << "Features for ", user.tier, " tier:" >> \o features[tier]

\* agents/22_localcontext.py
check_subscription_features(user) ==
  CASE user.tier = "free" ->
         << "Free Tier Features:", "- Basic content access",
            "- Standard support", "- Limited to 5 searches per day",
            "- No advanced features" >>
    [] user.tier = "premium" ->
         << "Premium Tier Features:", "- Full content access",
            "- Priority support", "- Unlimited searches",
            "- Advanced analytics", "- Custom exports" >>
    [] user.tier = "enterprise" ->
         << "Enterprise Tier Features:", "- All Premium features",
            "- Dedicated account manager", "- Custom integrations",
            "- Team collaboration tools", "- Advanced security features",
            "- SLA guarantees" >>
    [] OTHER -> << "Unknown subscription tier: ", user.tier >>

\* the cities the language model asks the weather of
Cities == {"Tokyo", "Madrid", ""}
\* choices of get_weather in 26_basicvoiceagent
choices == {"sunny", "cloudy", "rainy", "snowy"}
get_weather_stormy(s, city, choice) ==
  << "The weather in ", city, " is ", "stormy", "." >>
\* get_weather of script s; choice is what random.choice(choices) returns
get_weather(s, city, choice) ==
  CASE s = "26_basicvoiceagent" ->
         << "The weather in ", city, " is ", choice, "." >>
    [] s = "agents/03_basicconfig" ->
         << "The weather in ", city,
            " is sunny with a temperature of 70 degrees." >>
    [] OTHER -> << "The weather in ", city, " is sunny" >>

\* A date string is written as its separator and its three fields: sep "-"
\* for f1-f2-f3, "/" for f1/f2/f3, "B" for 'f1 f2, f3' with f1 a word, and
\* "" for a text that is no date.
Dates ==
  LET Numerals == {"2", "02", "4", "12", "13", "29", "30", "31",
                   "0999", "2023", "2024"}
  IN [sep : {"-", "/"}, f1 : Numerals, f2 : Numerals, f3 : Numerals]
     \cup [sep : {"B"}, f1 : {"February", "April", "Smarch"}, f2 : Numerals,
           f3 : Numerals]
     \cup {[sep |-> "", f1 |-> "tomorrow", f2 |-> "", f3 |-> ""]}

formats == << "%Y-%m-%d", "%m/%d/%Y", "%d/%m/%Y", "%B %d, %Y" >>

\* datetime.strptime(date_str, fmt): ok is FALSE for ValueError. %Y takes
\* four digits, %m 1..12 and %d 1..31 in one or two digits, %B a month's
\* name, and the day has to exist in the month.
strptime(date_str, fmt) ==
  LET Value(n) ==
        CASE n \in {"2", "02"} -> 2 [] n = "4" -> 4 [] n = "12" -> 12
          [] n = "13" -> 13 [] n = "29" -> 29 [] n = "30" -> 30
          [] n = "31" -> 31 [] n = "0999" -> 999 [] n = "2023" -> 2023
          [] n = "2024" -> 2024 [] OTHER -> 0
      FourDigits(n) == n \in {"0999", "2023", "2024"}
      Y(n) == IF FourDigits(n) THEN Value(n) ELSE 0
      m(n) == IF ~FourDigits(n) /\ Value(n) \in 1..12 THEN Value(n) ELSE 0
      d(n) == IF ~FourDigits(n) /\ Value(n) \in 1..31 THEN Value(n) ELSE 0
      B(n) == CASE n = "February" -> 2 [] n = "April" -> 4 [] OTHER -> 0
      t == CASE fmt = "%Y-%m-%d" /\ date_str.sep = "-" ->
                  [year |-> Y(date_str.f1), month |-> m(date_str.f2),
                   day |-> d(date_str.f3)]
             [] fmt = "%m/%d/%Y" /\ date_str.sep = "/" ->
                  [year |-> Y(date_str.f3), month |-> m(date_str.f1),
                   day |-> d(date_str.f2)]
             [] fmt = "%d/%m/%Y" /\ date_str.sep = "/" ->
                  [year |-> Y(date_str.f3), month |-> m(date_str.f2),
                   day |-> d(date_str.f1)]
             [] fmt = "%B %d, %Y" /\ date_str.sep = "B" ->
                  [year |-> Y(date_str.f3), month |-> B(date_str.f1),
                   day |-> d(date_str.f2)]
             [] OTHER -> [year |-> 0, month |-> 0, day |-> 0]
      leap == t.year % 4 = 0 /\ (t.year % 100 # 0 \/ t.year % 400 = 0)
      days == IF t.month = 2 THEN (IF leap THEN 29 ELSE 28)
              ELSE IF t.month \in {4, 6, 9, 11} THEN 30 ELSE 31
  IN [ok |-> t.year > 0 /\ t.month > 0 /\ t.day > 0 /\ t.day <= days,
      year |-> t.year, month |-> t.month, day |-> t.day]

\* parsed_date.strftime("%Y-%m-%d"): month and day in two digits; the C
\* library decides whether a year below 1000 is padded to four digits
strftime(parsed_date, padded) ==
  LET two(n) == CASE n = 2 -> "02" [] n = 4 -> "04" [] n = 12 -> "12"
                  [] n = 13 -> "13" [] n = 29 -> "29" [] n = 30 -> "30"
                  [] n = 31 -> "31"
  IN [sep |-> "-",
      f1 |-> CASE parsed_date.year = 2023 -> "2023"
               [] parsed_date.year = 2024 -> "2024"
               [] parsed_date.year = 999 -> IF padded THEN "0999" ELSE "999",
      f2 |-> two(parsed_date.month), f3 |-> two(parsed_date.day)]

\* the first format that parses decides; the input comes back when none does
validate_date(date_str, padded) ==
  LET parsing == {i \in DOMAIN formats : strptime(date_str, formats[i]).ok}
  IN IF parsing = {} THEN date_str
     ELSE strftime(strptime(date_str,
                            formats[CHOOSE i \in parsing : \A k \in parsing : i <= k]),
                   padded)

\* UserContext(name, language, interests, experience_level) of
\* 07_basicdynamicinstructions: the three users of main among them
UserContexts ==
  [name : {"Alex", "Maria", "Dr. Chen"},
   language : {"English", "Spanish", "english", ""},
   interests : {<< >>, << "programming", "cooking" >>},
   experience_level : {"beginner", "intermediate", "expert", "Beginner",
                       "novice", ""}]

\* a part of the instruction text and the values formatted into it
Block(text, values) == [block |-> text, with |-> values]

dynamic_instructions_any_case(context, agent) ==
  LET user == context.context
      level == IF user.experience_level = "Beginner" THEN "beginner"
               ELSE user.experience_level
      interests == [i \in 1..(IF user.interests = << >> THEN 0
                              ELSE 2 * Len(user.interests) - 1) |->
                      IF i % 2 = 1 THEN user.interests[(i + 1) \div 2] ELSE ", "]
      base_instructions ==
        << Block("The user's name is", << user.name >>),
           Block("They prefer communication in", << user.language >>),
           Block("Their experience level is", << user.experience_level >>),
           Block("Their interests include", interests) >>
      experience ==
        IF level = "beginner"
        THEN << Block("Use simple explanations", << >>) >>
        ELSE IF level = "intermediate"
        THEN << Block("You can use some technical terms", << >>) >>
        ELSE IF level = "expert"
        THEN << Block("You can use technical language freely", << >>) >>
        ELSE << >>
      respond == IF user.language # "English"
                 THEN << Block("Respond in", << user.language >>) >>
                 ELSE << >>
  IN base_instructions \o experience \o respond
\* dynamic_instructions(context, agent): the base text with the user's
\* fields, `+=` the text of the experience level, `+=` the language text
dynamic_instructions(context, agent) ==
  LET user == context.context
      interests == [i \in 1..(IF user.interests = << >> THEN 0
                              ELSE 2 * Len(user.interests) - 1) |->
                      IF i % 2 = 1 THEN user.interests[(i + 1) \div 2] ELSE ", "]
      base_instructions ==
        << Block("The user's name is", << user.name >>),
           Block("They prefer communication in", << user.language >>),
           Block("Their experience level is", << user.experience_level >>),
           Block("Their interests include", interests) >>
      experience ==
        IF user.experience_level = "beginner"
        THEN << Block("Use simple explanations", << >>) >>
        ELSE IF user.experience_level = "intermediate"
        THEN << Block("You can use some technical terms", << >>) >>
        ELSE IF user.experience_level = "expert"
        THEN << Block("You can use technical language freely", << >>) >>
        ELSE << >>
      respond == IF user.language # "English"
                 THEN << Block("Respond in", << user.language >>) >>
                 ELSE << >>
  IN base_instructions \o experience \o respond

\* ------------------------------------------------------------------ state
VARIABLES
  script,      \* the script that is executed
  deps,        \* VOICE_DEPENDENCIES_AVAILABLE
  module,      \* VOICE_MODULE_AVAILABLE
  env,         \* the key variable in os.environ
  file,        \* the key's line in the .env file
  key,         \* the script's key variable: "unread" before os.getenv
  handed,      \* the keys handed to the SDK: [to, key]
  pc,          \* "main", "running", "prompt2", "done", "crashed"
  ip,          \* the step of the script main is at
  frame,       \* the steps left of the loop body being executed
  exc,         \* the exception that ended the script
  agents,      \* the Agent objects constructed, by variable name
  nAgents,     \* Agent constructions so far
  nRuns,       \* runner calls of the script's own flow so far
  active,      \* runner calls of the script's own flow that are in progress
  cur,         \* the run in progress
  gstate,      \* per guardrail of that run: idle, running, passed, tripped
  gflag,       \* per guardrail: the flag its detector agent answered
  toolCalls,   \* tool calls in the run in progress
  users,       \* the context objects, by uid
  curAgent,    \* current_agent of the loop / the agent selected
  curUser,     \* the uid selected / current_user
  conv,        \* conversation_history.to_input_list() (empty: None)
  threads,     \* thread ids generated: the last one is the current id
  group,       \* group_id of the trace that is open (0: none)
  rating,      \* the rating joke_workshop parsed
  line,        \* the line read last
  linesRead,   \* lines read so far
  lineRuns,    \* in the loop: runner calls since the last line was read
  lineOutputs, \* in the loop: final outputs printed since then
  lineErrors,  \* in the loop: handler messages printed since then
  printed,     \* what was printed since the run started or the line was read
  last,        \* the run started last and how it ended
  ret          \* the function call the last step made: [fn, arg, value]

envVars == << script, deps, module, env, file, key, handed >>
ctlVars == << pc, ip, frame, exc >>
agentVars == << agents, nAgents >>
runVars == << nRuns, active, cur, gstate, gflag, toolCalls, last >>
loopVars == << curAgent, curUser, conv, threads, group, line, linesRead >>
lineVars == << lineRuns, lineOutputs, lineErrors, printed >>
vars ==
  << envVars, ctlVars, agentVars, runVars, users, rating, loopVars, lineVars,
     ret >>

NoRun == [agent |-> "", catch |-> << >>, ctx |-> 0, kind |-> "", phase |-> "none"]
NoGuards == [g \in {} |-> "idle"]
NoCall == [fn |-> "", arg |-> "", value |-> ""]

Prog == Program(script, deps, module)
End == Step("end")
\* the statement main is at
CurStep ==
  IF frame # << >> THEN Head(frame)
  ELSE IF ip <= Len(Prog) THEN Prog[ip] ELSE End
\* the enclosing loop, when main is inside one
LoopStep == IF ip <= Len(Prog) /\ Prog[ip].op = "loop" THEN Prog[ip] ELSE End
InLoop == LoopStep.op = "loop"
At(op) == pc = "main" /\ CurStep.op = op
\* go on with the next statement
Advance ==
  /\ pc' = "main"
  /\ ip' = IF frame # << >> THEN ip ELSE ip + 1
  /\ frame' = IF frame # << >> THEN Tail(frame) ELSE frame
  /\ exc' = exc
\* an exception no handler catches ends the script
Crash(e) == pc' = "crashed" /\ exc' = e /\ UNCHANGED << ip, frame >>

Init ==
  /\ script \in Scripts
  /\ deps \in BOOLEAN /\ module \in BOOLEAN
  /\ (script # "26_basicvoiceagent" => deps /\ module)
  /\ env \in KeyValues /\ file \in FileValues
  /\ key = "unread" /\ handed = {}
  /\ pc = "main" /\ ip = 1 /\ frame = << >> /\ exc = "none"
  /\ agents = [a \in {} |-> {}] /\ nAgents = 0
  /\ nRuns = 0 /\ active = 0 /\ cur = NoRun
  /\ gstate = NoGuards /\ gflag = NoGuards /\ toolCalls = 0
  /\ users = [u \in {} |-> UserContext]
  /\ curAgent = "" /\ curUser = 0 /\ conv = << >> /\ threads = 0 /\ group = 0
  /\ rating = 0
  /\ line = "" /\ linesRead = 0
  /\ lineRuns = 0 /\ lineOutputs = 0 /\ lineErrors = 0 /\ printed = "nothing"
  /\ last = [agent |-> "", outcome |-> "none", input |-> << >>]
  /\ ret = NoCall

\* --------------------------------------------------- configuration steps
\* load_dotenv() / load_env_from_file(): the .env file into os.environ
LoadEnv ==
  /\ At("load_dotenv") \/ At("load_env_from_file")
  /\ IF CurStep.op = "load_dotenv"
     THEN env' = load_dotenv(env, file) /\ ret' = NoCall /\ Advance
     ELSE \E f \in EnvFiles :
            LET r == load_env_from_file(Environ(env), f)
                read == load_env_from_file(Environ("none"), f)
            IN \* the file is one that has `file` for the key
               /\ file = IF KeyValue(read.environ) = "none" THEN "absent"
                         ELSE KeyValue(read.environ)
               /\ ret' = [fn |-> "load_env_from_file",
                          arg |-> [environ |-> Environ(env), file |-> f],
                          value |-> r]
               /\ env' = KeyValue(r.environ)
               /\ IF r.raised = "none" THEN Advance ELSE Crash(r.raised)
  /\ UNCHANGED << script, deps, module, file, key, handed, agentVars, runVars,
                  users, rating, loopVars, lineVars >>

\* key = os.getenv(...) / os.environ.get(...)
GetEnv ==
  /\ ret' = NoCall
  /\ At("getenv")
  /\ key' = env
  /\ Advance
  /\ UNCHANGED << script, deps, module, env, file, handed, agentVars, runVars,
                  users, rating, loopVars, lineVars >>

\* if not key: raise ValueError(...)
CheckApiKey ==
  /\ ret' = NoCall
  /\ At("check")
  /\ IF KeyMissing(key) THEN Crash("ValueError") ELSE Advance
  /\ UNCHANGED << envVars, agentVars, runVars, users, rating, loopVars, lineVars >>

\* set_default_openai_key(key), AsyncOpenAI(api_key=key, ...),
\* os.environ["OPENAI_API_KEY"] = key: the SDK takes the key as it is
HandKey ==
  /\ ret' = NoCall
  /\ At("set_default_openai_key") \/ At("AsyncOpenAI") \/ At("environ")
  /\ handed' = handed \cup {[to |-> CurStep.op, key |-> key]}
  /\ Advance
  /\ UNCHANGED << script, deps, module, env, file, key, agentVars, runVars,
                  users, rating, loopVars, lineVars >>

\* Agent(name=..., ...)
NewAgentObject ==
  /\ ret' = NoCall
  /\ At("Agent")
  /\ agents' = (CurStep.agent :>
                  [gkind |-> CurStep.gkind, guards |-> CurStep.guards,
                   tools |-> CurStep.tools]) @@ agents
  /\ nAgents' = nAgents + 1
  /\ Advance
  /\ UNCHANGED << envVars, runVars, users, rating, loopVars, lineVars >>

\* UserInfo(...), UserContext(...), create_sample_users()
NewContexts ==
  /\ ret' = NoCall
  /\ At("context") \/ At("create_sample_users")
  /\ users' = IF CurStep.op = "context"
              THEN (CurStep.ctx :> NewContextObject(script, CurStep.ctx)) @@ users
              ELSE create_sample_users(script) @@ users
  /\ Advance
  /\ UNCHANGED << envVars, agentVars, runVars, rating, loopVars, lineVars >>

\* demonstrate_filters(): a filter applied to a text and the result printed
\* print_tool_info(): name, description and schema of the agent's tools
PrintToolInfo ==
  /\ At("print_tool_info")
  /\ ret' = [fn |-> "print_tool_info", arg |-> "agent",
             value |-> "Function Tools Information"]
  /\ Advance
  /\ UNCHANGED << envVars, agentVars, runVars, users, rating, loopVars, lineVars >>

DemonstrateFilters ==
  /\ At("demonstrate_filters")
  /\ \E t \in Texts :
       ret' = [fn |-> "sanitize_sensitive_info", arg |-> t,
               value |-> sanitize_sensitive_info(t)]
  /\ Advance
  /\ UNCHANGED << envVars, agentVars, runVars, users, rating, loopVars, lineVars >>

\* main returns
Finish ==
  /\ ret' = NoCall
  /\ At("end")
  /\ pc' = "done"
  /\ UNCHANGED << ip, frame, exc, envVars, agentVars, runVars, users, rating,
                  loopVars, lineVars >>

\* ------------------------------------------------------------------ runs
\* the guardrail functions: tripwire_triggered for the detector's flag
gemini_math_homework_guardrail(is_math_homework) ==
  IF is_math_homework THEN TRUE ELSE FALSE
gemini_code_assignment_guardrail(is_code_assignment) ==
  IF is_code_assignment THEN TRUE ELSE FALSE
gemini_essay_writing_guardrail(is_essay_request) ==
  IF is_essay_request THEN TRUE ELSE FALSE
math_homework_guardrail_inverted(is_math_homework) == ~is_math_homework
math_homework_guardrail(is_math_homework) == is_math_homework
code_assignment_guardrail(is_code_assignment) == is_code_assignment
essay_writing_guardrail(is_essay_request) == is_essay_request
math_solution_guardrail(is_math) == IF is_math THEN TRUE ELSE FALSE
code_solution_guardrail(is_code) == IF is_code THEN TRUE ELSE FALSE
essay_guardrail(is_essay) == IF is_essay THEN TRUE ELSE FALSE
math_output_guardrail(is_math) == is_math
code_output_guardrail(contains_code) == contains_code
personal_info_output_guardrail(contains_personal_info) == contains_personal_info
homework_guardrail_not_negated(is_homework) == is_homework
homework_guardrail(is_homework) == ~is_homework

IsGemini(s) == s \notin
  {"basicopenaiagent", "hello-world-agents", "helloworld",
   "agents/03_basicconfig", "agents/basicconfig", "agents/22_localcontext",
   "01Helloworld", "20RecommendedPrompts", "21HighLevelTraces", "23Guardrails",
   "24OutputGuardrails", "25Models", "26_basicvoiceagent"}

\* the guardrail function g of script s, applied to the detector's flag
Tripwire(s, g, flag) ==
  CASE g = "homework_guardrail" -> homework_guardrail(flag)
    [] g = "math_homework_guardrail" ->
         IF IsGemini(s) THEN gemini_math_homework_guardrail(flag)
         ELSE math_homework_guardrail(flag)
    [] g = "code_assignment_guardrail" ->
         IF IsGemini(s) THEN gemini_code_assignment_guardrail(flag)
         ELSE code_assignment_guardrail(flag)
    [] g = "essay_writing_guardrail" ->
         IF IsGemini(s) THEN gemini_essay_writing_guardrail(flag)
         ELSE essay_writing_guardrail(flag)
    [] g = "math_solution_guardrail" -> math_solution_guardrail(flag)
    [] g = "code_solution_guardrail" -> code_solution_guardrail(flag)
    [] g = "essay_guardrail" -> essay_guardrail(flag)
    [] g = "math_output_guardrail" -> math_output_guardrail(flag)
    [] g = "code_output_guardrail" -> code_output_guardrail(flag)
    [] g = "personal_info_output_guardrail" ->
         personal_info_output_guardrail(flag)

\* `if rating < 7:` around a step
CondHolds(step) == step.cond = "" \/ rating < 7

\* the detector runs in progress: Runner.run inside a guardrail function
nested == {g \in DOMAIN gstate : gstate[g] = "running"}
tripped == {g \in DOMAIN gstate : gstate[g] = "tripped"}

new_input_without_history(conversation_history, user_input) ==
  << user_input >>
\* 09_running: the input of a turn; conversation_history is written as its
\* to_input_list(), None as the empty list
new_input(conversation_history, user_input) ==
  IF conversation_history = << >> THEN << user_input >>
  ELSE conversation_history \o << user_input >>

\* a statement under an `if` whose condition is false
Skip ==
  /\ ret' = NoCall
  /\ pc = "main" /\ CurStep.op = "run" /\ ~CondHolds(CurStep)
  /\ Advance
  /\ UNCHANGED << envVars, agentVars, runVars, users, rating, loopVars, lineVars >>

\* the script's `from agents import ...` binds the name Runner
RunnerImported(s) == s # "13_functiontools"

\* Runner.run(agent, input, context=...), Runner.run_streamed(...): the run
\* starts, and with `await` main is suspended until it ends
StartRun ==
  /\ pc = "main" /\ CurStep.op = "run" /\ CondHolds(CurStep)
  /\ IF CurStep.agent = "dynamic_agent"
     THEN \* instructions=dynamic_instructions: called with the run's context
          \E user \in UserContexts :
            ret' = [fn |-> "dynamic_instructions", arg |-> user,
                    value |-> dynamic_instructions([context |-> user],
                                                   CurStep.agent)]
     ELSE ret' = NoCall
  /\ LET a == IF CurStep.agent = Current THEN curAgent ELSE CurStep.agent
         c == IF CurStep.ctx = Selected THEN curUser ELSE CurStep.ctx
     IN IF RunnerImported(script) /\ a \in DOMAIN agents
        THEN /\ cur' = [agent |-> a, catch |-> CurStep.catch, ctx |-> c,
                        kind |-> CurStep.kind, phase |-> "model"]
             /\ gstate' = [g \in agents[a].guards |-> "idle"]
             /\ gflag' = [g \in agents[a].guards |-> "unknown"]
             /\ nRuns' = nRuns + 1 /\ active' = active + 1
             /\ lineRuns' = IF InLoop THEN lineRuns + 1 ELSE lineRuns
             /\ IF CurStep.awaited
                THEN pc' = "running" /\ UNCHANGED << ip, frame, exc >>
                ELSE Advance
             /\ last' = [agent |-> a, outcome |-> "running",
                          input |-> IF LoopStep.kind = "new"
                                    THEN new_input(conv, line) ELSE << >>]
        ELSE \* Runner, or the variable naming the agent, is not bound
             /\ Crash("NameError")
             /\ UNCHANGED << cur, gstate, gflag, nRuns, active, lineRuns, last >>
  /\ toolCalls' = 0
  /\ printed' = "nothing"
  /\ UNCHANGED << envVars, agentVars, users, rating, loopVars,
                  lineOutputs, lineErrors >>

\* the language model calls one of the agent's function tools, which gets
\* the run's context object in wrapper.context
ToolCall ==
  /\ pc = "running" /\ cur.phase = "model" /\ toolCalls < MaxToolCalls
  /\ \E t \in agents[cur.agent].tools :
       CASE t = "update_user_preference" ->
              /\ \E k \in PrefKeys, v \in NewValues :
                   users' = [users EXCEPT
                     ![cur.ctx] = update_user_preference(users[cur.ctx], k, v)]
              /\ ret' = NoCall
         [] t = "get_subscription_features" ->
              /\ ret' = [fn |-> t, arg |-> users[cur.ctx],
                         value |-> get_subscription_features(users[cur.ctx])]
              /\ users' = users
         [] t = "check_subscription_features" ->
              /\ ret' = [fn |-> t, arg |-> users[cur.ctx],
                         value |-> check_subscription_features(users[cur.ctx])]
              /\ users' = users
         [] t = "get_weather" ->
              /\ \E city \in Cities, choice \in choices :
                   ret' = [fn |-> t, arg |-> city,
                           value |-> get_weather(script, city, choice)]
              /\ users' = users
         [] t = "validate_date" ->
              /\ \E date_str \in Dates, padded \in BOOLEAN :
                   ret' = [fn |-> t, arg |-> date_str,
                           value |-> validate_date(date_str, padded)]
              /\ users' = users
         [] OTHER -> users' = users /\ ret' = NoCall
  /\ toolCalls' = toolCalls + 1
  /\ UNCHANGED << envVars, ctlVars, agentVars, nRuns, active, cur, gstate, gflag,
                  last, rating, loopVars, lineVars >>

\* the agent produces its final output
AgentProduces ==
  /\ ret' = NoCall
  /\ pc = "running" /\ cur.phase = "model"
  /\ cur' = [cur EXCEPT !.phase = "output"]
  /\ UNCHANGED << envVars, ctlVars, agentVars, nRuns, active, gstate, gflag,
                  toolCalls, last, users, rating, loopVars, lineVars >>

\* the SDK calls a guardrail function of the running agent, an input
\* guardrail on the input and an output guardrail on the final output; the
\* function starts a run of its detector agent
GuardStart ==
  /\ ret' = NoCall
  /\ pc = "running"
  /\ \E g \in DOMAIN gstate :
       /\ gstate[g] = "idle"
       /\ agents[cur.agent].gkind = "input" \/ cur.phase = "output"
       /\ gstate' = [gstate EXCEPT ![g] = "running"]
  /\ UNCHANGED << envVars, ctlVars, agentVars, nRuns, active, cur, gflag,
                  toolCalls, last, users, rating, loopVars, lineVars >>

\* the detector's run returns its flag and the guardrail function returns
\* GuardrailFunctionOutput(tripwire_triggered=...)
GuardReturn ==
  /\ ret' = NoCall
  /\ pc = "running"
  /\ \E g \in nested, flag \in BOOLEAN :
       /\ gflag' = [gflag EXCEPT ![g] = IF flag THEN "True" ELSE "False"]
       /\ gstate' = [gstate EXCEPT ![g] =
                       IF Tripwire(script, g, flag) THEN "tripped" ELSE "passed"]
  /\ UNCHANGED << envVars, ctlVars, agentVars, nRuns, active, cur, toolCalls,
                  last, users, rating, loopVars, lineVars >>

\* the awaited run returns its result: every guardrail has passed; the
\* script prints the final output and, in the workshop, parses the rating
RunReturn ==
  /\ pc = "running" /\ cur.phase = "output"
  /\ \A g \in DOMAIN gstate : gstate[g] = "passed"
  /\ active' = active - 1
  /\ last' = [last EXCEPT !.outcome = "output"]
  /\ cur' = NoRun
  /\ lineOutputs' = IF InLoop THEN lineOutputs + 1 ELSE lineOutputs
  /\ printed' = "output"
  /\ IF cur.kind = "evaluate"
     THEN \E evaluation \in Evaluations :
            /\ rating' = ParseRating(evaluation)
            /\ ret' = [fn |-> "rating", arg |-> evaluation, value |-> rating']
     ELSE rating' = rating /\ ret' = NoCall
  /\ conv' = IF LoopStep.kind = "new" THEN last.input \o << "assistant" >>
              ELSE conv
  /\ Advance
  /\ toolCalls' = 0
  /\ UNCHANGED << envVars, agentVars, nRuns, gstate, gflag, users,
                  curAgent, curUser, threads, group, line, linesRead, lineRuns,
                  lineErrors >>

\* what the run raises: an error at any time, the tripwire exception once a
\* guardrail has tripped
Raisable ==
  Errors \cup (IF tripped = {} THEN {}
               ELSE IF agents[cur.agent].gkind = "input" THEN {InputTrip}
               ELSE {OutputTrip})

\* the awaited run raises; the SDK cancels the guardrails still running and
\* their results are lost with the run.
\* A matching `except` prints its message and the script goes on after the
\* try statement; without one the exception ends the script
RunRaise ==
  /\ ret' = NoCall
  /\ pc = "running"
  /\ \E e \in Raisable :
       LET h == Handler(cur.catch, e)
       IN /\ last' = [last EXCEPT !.outcome = e]
          /\ IF h = "none"
             THEN /\ Crash(e)
                  /\ UNCHANGED << lineErrors, printed >>
             ELSE /\ lineErrors' = IF InLoop THEN lineErrors + 1 ELSE lineErrors
                  /\ printed' = HandlerPrints(LoopStep.kind, h)
                  /\ pc' = "main" /\ exc' = exc
                  /\ ip' = IF InLoop \/ frame # << >> THEN ip ELSE ip + 1
                  /\ frame' = << >>
  /\ active' = active - 1
  /\ cur' = NoRun
  /\ gstate' = NoGuards /\ gflag' = NoGuards /\ toolCalls' = 0
  /\ UNCHANGED << envVars, agentVars, nRuns, users, rating, loopVars, lineRuns,
                  lineOutputs >>

\* ----------------------------------------------------- interactive loops
\* a lower-cased line as the pieces that 'switch ' cuts it into
Words(l) ==
  CASE l = "switch user" -> << "switch ", "user" >>
    [] l = "switch pirate" -> << "switch ", "pirate" >>
    [] l = "switch nobody" -> << "switch ", "nobody" >>
    [] l = "switch pirate switch robot" ->
         << "switch ", "pirate", " ", "switch ", "robot" >>
    [] OTHER -> << l >>
\* user_input.lower().startswith('switch ')
IsSwitch(l) == Head(Words(Lower(l))) = "switch "
\* user_input.lower().split('switch ')[1].strip(): what stands between the
\* first 'switch ' and the next one, without the blanks around it
AgentChoice(l) ==
  LET rest == Tail(Words(Lower(l)))
      cuts == {i \in 1..Len(rest) : rest[i] = "switch "}
      part == IF cuts = {} THEN rest
              ELSE SubSeq(rest, 1, (CHOOSE i \in cuts : \A k \in cuts : i <= k) - 1)
      stripped == SelectSeq(part, LAMBDA w : w # " ")
  IN IF stripped = << >> THEN "" ELSE stripped[1]
\* the if/elif chain over agent_choice; "" is the final else
AgentNamed(choice) ==
  CASE choice = "base" -> "base_agent"
    [] choice = "pirate" -> "pirate_agent"
    [] choice = "robot" -> "robot_agent"
    [] choice = "poet" -> "poet_agent"
    [] choice = "emoji-pirate" -> "emoji_pirate_agent"
    [] OTHER -> ""

\* the statements before `while True:` that set the loop's variables
LoopSetup ==
  /\ ret' = NoCall
  /\ At("choose_user") \/ At("set_current") \/ At("new_thread")
  /\ \E u \in DOMAIN users \cup {0} :
       /\ (CurStep.op = "choose_user") = (u # 0)
       /\ curUser' = IF u = 0 THEN curUser ELSE u
  /\ curAgent' = IF CurStep.op = "set_current" THEN CurStep.agent ELSE curAgent
  /\ threads' = IF CurStep.op = "new_thread" THEN threads + 1 ELSE threads
  /\ group' = IF CurStep.op = "new_thread" THEN threads + 1 ELSE group
  /\ conv' = IF CurStep.op = "new_thread" THEN << >> ELSE conv
  /\ Advance
  /\ UNCHANGED << envVars, agentVars, runVars, users, rating, line, linesRead,
                  lineVars >>

AtPrompt(kinds) ==
  /\ pc = "main" /\ frame = << >> /\ InLoop /\ LoopStep.kind \in kinds
  /\ linesRead < MaxLines
\* input(...) returns l
ReadLine(l) ==
  /\ line' = l /\ linesRead' = linesRead + 1
  /\ lineRuns' = 0 /\ lineOutputs' = 0
\* break
Break == pc' = "main" /\ ip' = ip + 1 /\ frame' = << >> /\ exc' = exc
\* the rest of the loop body
Body == pc' = "main" /\ ip' = ip /\ frame' = LoopStep.body /\ exc' = exc
\* continue
Continue == UNCHANGED ctlVars
Quiet == lineErrors' = 0 /\ printed' = "nothing"

\* while True: user_input = input(...); exit ends the loop, any other line
\* is run
Prompt ==
  /\ ret' = NoCall
  /\ AtPrompt({"plain", "catch", "tripwire", "workshop"})
  /\ \E l \in Lines :
       /\ ReadLine(l) /\ Quiet
       /\ IF IsExit(l) THEN Break ELSE Body
  /\ UNCHANGED << envVars, agentVars, runVars, users, rating, curAgent, curUser,
                  conv, threads, group >>

\* 07_basicdynamicinstructions: 'switch user' picks a user at random
PromptSwitchUser ==
  /\ ret' = NoCall
  /\ AtPrompt({"switchuser"})
  /\ \E l \in Lines, u \in {1, 2, 3} :
       /\ ReadLine(l) /\ Quiet
       /\ CASE IsExit(l) -> Break /\ curUser' = curUser
            [] ~IsExit(l) /\ Lower(l) = "switch user" -> Continue /\ curUser' = u
            [] OTHER -> Body /\ curUser' = curUser
  /\ UNCHANGED << envVars, agentVars, runVars, users, rating, curAgent, conv,
                  threads, group >>

\* 08_basiccloning: 'switch <name>' changes current_agent when the name is
\* known
PromptSwitch ==
  /\ ret' = NoCall
  /\ AtPrompt({"switch"})
  /\ \E l \in Lines :
       /\ ReadLine(l) /\ Quiet
       /\ CASE IsExit(l) -> Break /\ curAgent' = curAgent
            [] ~IsExit(l) /\ IsSwitch(l) ->
                 /\ Continue
                 /\ curAgent' = IF AgentNamed(AgentChoice(l)) = "" THEN curAgent
                                ELSE AgentNamed(AgentChoice(l))
            [] OTHER -> Body /\ curAgent' = curAgent
  /\ UNCHANGED << envVars, agentVars, runVars, users, rating, curUser, conv,
                  threads, group >>

\* 09_running: 'new' drops the conversation history
PromptNew ==
  /\ ret' = NoCall
  /\ AtPrompt({"new"})
  /\ \E l \in Lines :
       /\ ReadLine(l) /\ Quiet
       /\ CASE IsExit(l) -> Break /\ UNCHANGED << conv, threads >>
            [] ~IsExit(l) /\ Lower(l) = "new" ->
                 Continue /\ conv' = << >> /\ threads' = threads + 1
            [] OTHER -> Body /\ UNCHANGED << conv, threads >>
  /\ UNCHANGED << envVars, agentVars, runVars, users, rating, curAgent, curUser,
                  group >>

selected_agent_or_first(options, agent_choice) ==
  LET agent_num == ParseInt(agent_choice)
  IN IF agent_num.ok /\ agent_num.value \in 1..3 THEN options[agent_num.value]
     ELSE options[1]
\* agent_num = int(agent_choice) and the if/elif chain over 1, 2, 3; "" is
\* the else branch and the ValueError handler, which both `continue`
selected_agent(options, agent_choice) ==
  LET agent_num == ParseInt(agent_choice)
  IN IF agent_num.ok /\ agent_num.value \in 1..3 THEN options[agent_num.value]
     ELSE ""

\* the selection loops: the first prompt takes the agent's number
PromptSelect ==
  /\ ret' = NoCall
  /\ AtPrompt({"select"})
  /\ \E l \in Lines :
       /\ ReadLine(l) /\ Quiet
       /\ LET a == selected_agent(LoopStep.choices, l)
          IN CASE IsExit(l) -> Break /\ curAgent' = curAgent
               [] ~IsExit(l) /\ a # "" ->
                    /\ pc' = "prompt2" /\ UNCHANGED << ip, frame, exc >>
                    /\ curAgent' = a
               [] OTHER -> Continue /\ curAgent' = curAgent
  /\ UNCHANGED << envVars, agentVars, runVars, users, rating, curUser, conv,
                  threads, group >>

\* 22_localcontext: the first prompt takes the user id; int() raising
\* ValueError is caught by the loop's `except ValueError`
PromptUserId ==
  /\ ret' = NoCall
  /\ AtPrompt({"localctx"})
  /\ \E l \in Lines :
       /\ ReadLine(l)
       /\ LET uid == ParseInt(l)
          IN CASE IsExit(l) -> Break /\ Quiet /\ curUser' = curUser
               [] ~IsExit(l) /\ ~uid.ok ->
                    /\ Continue /\ curUser' = curUser
                    /\ lineErrors' = 1
                    /\ printed' = HandlerPrints("localctx", Handler(Try, "ValueError"))
               [] ~IsExit(l) /\ uid.ok /\ uid.value \in DOMAIN create_sample_users(script) ->
                    /\ pc' = "prompt2" /\ UNCHANGED << ip, frame, exc >>
                    /\ Quiet /\ curUser' = uid.value
               [] OTHER -> Continue /\ Quiet /\ curUser' = curUser
  /\ UNCHANGED << envVars, agentVars, runVars, users, rating, curAgent, conv,
                  threads, group >>

\* the second prompt of a selection or user loop takes the query
PromptQuery ==
  /\ ret' = NoCall
  /\ pc = "prompt2" /\ linesRead < MaxLines
  /\ \E l \in Lines :
       /\ ReadLine(l) /\ Quiet
       /\ IF IsExit(l) THEN Break ELSE Body
  /\ UNCHANGED << envVars, agentVars, runVars, users, rating, curAgent, curUser,
                  conv, threads, group >>

Next ==
  \/ LoadEnv \/ GetEnv \/ CheckApiKey \/ HandKey \/ NewAgentObject
  \/ NewContexts \/ PrintToolInfo \/ DemonstrateFilters \/ Finish
  \/ Skip \/ StartRun \/ ToolCall \/ AgentProduces \/ GuardStart \/ GuardReturn
  \/ RunReturn \/ RunRaise
  \/ LoopSetup \/ Prompt \/ PromptSwitchUser \/ PromptSwitch \/ PromptNew
  \/ PromptSelect \/ PromptUserId \/ PromptQuery

Spec == Init /\ [][Next]_vars

\* --------------------------------------------------------------- properties
\* C1, as stated: at every moment at most one runner invocation is in
\* progress, the detector runs of the guardrail functions included.
OneRunnerInvocationAtATime == active + Cardinality(nested) <= 1

\* C1, amended: at most one runner call of the script's own flow is in
\* progress; the detector runs the guardrail functions start are in
\* progress only while a run of the guarded agent is, and only for the
\* guardrails of that agent.
OneAwaitedRunAtATime ==
  /\ active <= 1
  /\ nested # {} =>
       /\ active = 1 /\ pc = "running"
       /\ nested \subseteq agents[cur.agent].guards

\* a detector run is in progress inside tutor_agent's run
DetectorRunInsideRun ==
  /\ active = 1 /\ cur.agent = "tutor_agent"
  /\ "math_homework_guardrail" \in nested

\* C2: whenever a key has been handed to the SDK (set_default_openai_key,
\* AsyncOpenAI), it is present: not None and not empty.
KeyPresentWhenHanded ==
  \A h \in handed : h.to \in {"set_default_openai_key", "AsyncOpenAI"} => h.key = "set"

\* the scripts that check the key
ChecksKey(s) == IsGemini(s) \/ s \in {"hello-world-agents", "helloworld"}

\* C3: in the scripts that check the key, a key that is unset or empty
\* after the .env file is loaded makes the script raise ValueError before
\* any client or agent is constructed and before any runner call.
MissingKeyRaisesValueErrorFirst ==
  (ChecksKey(script) /\ key \in {"none", "empty"}) =>
    /\ handed = {} /\ nAgents = 0 /\ nRuns = 0
    /\ \/ pc = "main" /\ CurStep.op = "check"
       \/ pc = "crashed" /\ exc = "ValueError"

\* a Gemini script has raised ValueError on an empty key
EmptyKeyRaised ==
  /\ IsGemini(script) /\ key = "empty"
  /\ pc = "crashed" /\ exc = "ValueError"

\* C4, as stated: the context object passed to Runner.run is not modified
\* during the run (no context object is).
ContextUnchangedDuringRun == [][pc = "running" => users' = users]_vars

\* C4, amended: during a run only the update_user_preference tool of the
\* running agent modifies a context object, and only by setting one entry of
\* the preferences of the run's own context object; between runs the
\* existing context objects keep their values, so that a later run or tool
\* call with the same object sees the change.
OnlyOwnPreferenceChanges ==
  [][/\ pc = "running" /\ users' # users =>
          /\ "update_user_preference" \in agents[cur.agent].tools
          /\ \E k \in PrefKeys, v \in NewValues :
               users' = [users EXCEPT ![cur.ctx].preferences[k] = v]
     /\ pc # "running" => \A u \in DOMAIN users : users'[u] = users[u]]_vars

\* a run starts with a context object that an earlier run has modified
LaterRunSeesChange ==
  /\ pc = "running" /\ toolCalls = 0 /\ cur.ctx = 2
  /\ script = "22_localcontext"
  /\ users[2].preferences["theme"] = "blue"

\* 'exit' in the letter cases the user types
ExitLines == {"exit", "Exit"}
\* the loop is about to prompt again
AtNextPrompt == pc = "main" /\ frame = << >> /\ InLoop /\ linesRead > 0
\* the loops whose only command is 'exit'
OnlyExitCommand == LoopStep.kind \in {"plain", "catch", "tripwire", "workshop"}

\* C5, as stated (second sentence): in the loops that have no other
\* command, a line other than 'exit' has caused exactly one runner call and
\* its output has been printed when the loop prompts again.
EveryLineOneRunPrinted ==
  (AtNextPrompt /\ OnlyExitCommand /\ line \notin ExitLines) =>
    lineRuns = 1 /\ lineOutputs = 1

\* C5, amended: 'exit' in any letter case ends the loop at once, with no
\* runner call for that line or after it.  In the loops whose only command
\* is 'exit', every other line causes one runner call of the loop body, or
\* in the joke workshop loops three (Gemini) and two or four (OpenAI, four
\* when the parsed rating is below 7); when the loop prompts again each of
\* these calls has had its output printed or, inside try/except, has raised
\* an exception whose handler printed a message instead.
ExitEndsLoopLinesAreRun ==
  /\ (linesRead > 0 /\ line \in ExitLines) =>
       /\ ip = Len(Prog) + 1 /\ frame = << >> /\ pc \in {"main", "done"}
       /\ active = 0 /\ lineRuns = 0
  /\ (AtNextPrompt /\ OnlyExitCommand /\ line \notin ExitLines) =>
       /\ lineOutputs + lineErrors = lineRuns
       /\ LoopStep.kind # "workshop" => lineRuns = 1
       /\ LoopStep.kind = "workshop" =>
            /\ lineErrors = 0
            /\ lineRuns = IF IsGemini(script) THEN 3
                          ELSE IF rating < 7 THEN 4 ELSE 2

\* the user typed a line that was run and then Exit, which ended the script
ExitAfterALine ==
  /\ script = "basicopenaiagent" /\ nRuns = 1
  /\ line = "Exit" /\ pc = "done"

\* the OpenAI joke workshop has made four runner calls for one line
FourRunsForOneLine ==
  AtNextPrompt /\ script = "21HighLevelTraces" /\ lineRuns = 4

\* C6: in the loops that wrap the run in try/except Exception an exception
\* raised by the runner call is caught and a message printed, the input is
\* not run again, the loop prompts again, and only 'exit' ends the loop.
ExceptionCaughtLoopGoesOn ==
  (InLoop /\ LoopStep.kind \in {"catch", "localctx"}) =>
    /\ pc # "crashed"
    /\ lineRuns <= 1
    /\ (lineRuns = 1 /\ last.outcome \in Errors) =>
         /\ pc = "main" /\ frame = << >>
         /\ lineErrors = 1 /\ lineOutputs = 0
         /\ printed \in {"error", "Please enter a valid user ID."}

\* these loops are left only by 'exit'
CatchLoopEndsOnExitOnly ==
  (ip = Len(Prog) + 1 /\ Prog[Len(Prog)].op = "loop"
     /\ Prog[Len(Prog)].kind \in {"catch", "localctx"}) => line \in ExitLines

\* C6, both parts
ExceptionCaughtOnlyExitEnds == ExceptionCaughtLoopGoesOn /\ CatchLoopEndsOnExitOnly

\* the run of a line has raised, the error is printed, the loop prompts
RunFailedLoopPrompts ==
  /\ AtNextPrompt /\ LoopStep.kind = "catch"
  /\ lineRuns = 1 /\ last.outcome = "Exception" /\ printed = "error"

\* C7: in the guardrail scripts' loops a tripwire exception is handled: the
\* guardrail message is printed, the final output is not, and the loop
\* prompts again; any other exception of the run ends the script.
OnlyTripwireHandled ==
  (InLoop /\ LoopStep.kind = "tripwire" /\ lineRuns = 1) =>
    /\ last.outcome \in {InputTrip, OutputTrip} =>
         /\ pc = "main" /\ frame = << >>
         /\ printed = "guardrail message"
         /\ lineErrors = 1 /\ lineOutputs = 0
    /\ last.outcome \in Errors =>
         /\ pc = "crashed" /\ exc = last.outcome
         /\ lineErrors = 0 /\ lineOutputs = 0

\* a guardrail has tripped on a line and the loop prompts again
TrippedLoopPrompts ==
  /\ AtNextPrompt /\ script = "24_outputguardrails"
  /\ last.outcome = OutputTrip /\ printed = "guardrail message"

\* the guardrail has returned tripwire_triggered equal to its detector's flag
TripwireIsFlag(g) ==
  /\ gflag[g] = "True" => gstate[g] = "tripped"
  /\ gflag[g] = "False" => gstate[g] = "passed"
  /\ gstate[g] \in {"tripped", "passed"} => gflag[g] # "unknown"

\* C8: in the input-guardrail scripts every guardrail function returns
\* tripwire_triggered equal to its detector's flag, and a run of tutor_agent
\* yields a final output only when all three detectors have answered and
\* none has flagged the input; once one has, the run has no output.
TutorAnswersOnlyUnflagged ==
  script \in {"23_guardrails", "23Guardrails"} =>
    /\ \A g \in DOMAIN gstate : TripwireIsFlag(g)
    /\ (last.agent = "tutor_agent" /\ last.outcome = "output") =>
         /\ DOMAIN gflag = G23
         /\ \A g \in G23 : gflag[g] = "False"
    /\ (\E g \in DOMAIN gflag : gflag[g] = "True") => last.outcome = "running"

\* tutor_agent's run was blocked by a guardrail
TutorRunBlocked ==
  /\ script = "23Guardrails" /\ last.agent = "tutor_agent"
  /\ last.outcome = InputTrip

\* C9: in 02_detailagent homework_guardrail trips exactly when the
\* guardrail agent answers is_homework = False; triage_agent's run yields an
\* output only for is_homework = True, and a tripped run fails and ends the
\* script.
HomeworkOnly ==
  script = "02_detailagent" =>
    /\ \A g \in DOMAIN gstate :
         /\ gflag[g] = "False" => gstate[g] = "tripped"
         /\ gflag[g] = "True" => gstate[g] = "passed"
         /\ gstate[g] \in {"tripped", "passed"} => gflag[g] # "unknown"
    /\ last.outcome = "output" => gflag = [g \in {"homework_guardrail"} |-> "True"]
    /\ (\E g \in DOMAIN gflag : gflag[g] = "False") => last.outcome = "running"
    /\ last.outcome = InputTrip => pc = "crashed" /\ exc = InputTrip

\* a question that is not homework has made the run fail
NotHomeworkRunFailed ==
  /\ script = "02_detailagent" /\ last.agent = "triage_agent"
  /\ pc = "crashed" /\ exc = InputTrip

\* C10, as stated: every Agent is constructed before the script's first
\* runner call, none between or after runner calls.
AgentsBeforeFirstRun == [][nAgents' > nAgents => nRuns = 0]_vars

\* the scripts that construct Agents after their first runner call
LateAgents ==
  {"10_streamingrawresponse", "11_runitemandagentsevents", "25_models",
   "agents/22_localcontext"}

\* C10, amended: every Agent is constructed before the runner call that
\* runs it and never while a runner call is in progress; Agents are
\* constructed after the script's first runner call only in
\* 10_streamingrawresponse, 11_runitemandagentsevents, the Gemini 25_models
\* and agents/22_localcontext.
AgentsBeforeTheirRun ==
  [][/\ nAgents' > nAgents =>
          /\ active = 0
          /\ nRuns = 0 \/ script \in LateAgents
     /\ (pc = "main" /\ CurStep.op = "run" /\ CurStep.agent # Current) =>
          CurStep.agent \in DOMAIN agents
     /\ pc' = "running" => cur'.agent \in DOMAIN agents]_vars

\* benchmark_models runs an Agent it constructed after earlier runs
LateAgentRuns ==
  /\ script = "25_models" /\ pc = "running"
  /\ cur.agent = "benchmark_agent" /\ nRuns = 5

\* the substrings sanitize_sensitive_info searches for
Sensitive ==
  {<< "credit", " ", "card" >>, << "SSN" >>, << "password" >>,
   << "account", " ", "number" >>}
Contains(s, p) ==
  \E i \in 1..(Len(s) - Len(p) + 1) : SubSeq(s, i, i + Len(p) - 1) = p
HasSensitive(s) == \E p \in Sensitive : Contains(s, p)
EndsWithNote(s) == Len(s) > 0 /\ s[Len(s)] = Note

\* C11, as stated: the result of sanitize_sensitive_info contains none of
\* the four substrings, it ends with the redaction note if and only if the
\* input contained at least one of them, and an input containing none of
\* them is returned unchanged.
NotedIffSensitive ==
  ret.fn = "sanitize_sensitive_info" =>
    /\ ~HasSensitive(ret.value)
    /\ EndsWithNote(ret.value) <=> HasSensitive(ret.arg)
    /\ ~HasSensitive(ret.arg) => ret.value = ret.arg

\* C11, amended: the result of sanitize_sensitive_info contains none of the
\* four substrings, it ends with the redaction note if and only if the
\* input contained at least one of them or already ended with the note, and
\* an input containing none of them is returned unchanged.
NotedIffSensitiveOrNoted ==
  ret.fn = "sanitize_sensitive_info" =>
    /\ ~HasSensitive(ret.value)
    /\ EndsWithNote(ret.value) <=> (HasSensitive(ret.arg) \/ EndsWithNote(ret.arg))
    /\ HasSensitive(ret.arg) => ret.value # ret.arg
    /\ ~HasSensitive(ret.arg) => ret.value = ret.arg

\* the demonstration's sample has been redacted and the note added
SampleRedacted ==
  /\ ret.fn = "sanitize_sensitive_info" /\ ret.arg = sample_input
  /\ ret.value =
       << "I need help with my ", "[ACCOUNT ID]", " 12345-6789. My ",
          "[PAYMENT METHOD]", " isn't working and I forgot my ",
          "[CREDENTIALS]", ".", Note >>

\* the tiers a context object is given here
Tiers == {"free", "basic", "premium", "enterprise", "Premium", "FREE", "gold", ""}
Unknown(text) == text[1] = "Unknown subscription tier: "

\* C12: the subscription-features tool maps the user's tier to that tier's
\* feature list, the tier compared after lower-casing in the Gemini script
\* and exactly in the OpenAI script, and answers 'Unknown subscription
\* tier: <tier>' for every other value; every user built by
\* create_sample_users has a tier for which the tool of the same script
\* returns a feature list, so no call of the tool in a run answers Unknown.
TierMapsToItsFeatures ==
  /\ \A tier \in Tiers :
       LET user == UserInfo(tier, "unset")
           g == get_subscription_features(user)
           c == check_subscription_features(user)
       IN /\ IF Lower(tier) \in {"free", "basic", "premium"}
             THEN g = << "Features for ", tier, " tier:" >> \o features[Lower(tier)]
             ELSE g = << "Unknown subscription tier: ", tier >>
          /\ CASE tier = "free" -> c[1] = "Free Tier Features:"
               [] tier = "premium" -> c[1] = "Premium Tier Features:"
               [] tier = "enterprise" -> c[1] = "Enterprise Tier Features:"
               [] OTHER -> c = << "Unknown subscription tier: ", tier >>
          /\ ~Unknown(c) => Len(c) > 1
  /\ \A s \in {"agents/22_localcontext", "22_localcontext"} :
       \A uid \in DOMAIN create_sample_users(s) :
         IF s = "22_localcontext"
         THEN ~Unknown(get_subscription_features(create_sample_users(s)[uid]))
         ELSE ~Unknown(check_subscription_features(create_sample_users(s)[uid]))
  /\ ret.fn \in {"get_subscription_features", "check_subscription_features"} =>
       ~Unknown(ret.value)

\* the tool has answered the basic tier's feature list for sample user 2
BasicUserGotFeatures ==
  /\ ret.fn = "get_subscription_features" /\ cur.ctx = 2
  /\ ret.value = << "Features for ", "basic", " tier:" >> \o features.basic

\* C13: given city X, get_weather returns one of a fixed set of strings: in
\* the voice-agent script exactly 'The weather in X is W.' with W one of
\* sunny, cloudy, rainy, snowy, and in the basic-config scripts a single
\* fixed sentence naming X; the call returns and raises nothing.
WeatherIsOneOfFixedStrings ==
  ret.fn = "get_weather" =>
    /\ pc = "running" /\ exc = "none"
    /\ CASE script = "26_basicvoiceagent" ->
              \E W \in {"sunny", "cloudy", "rainy", "snowy"} :
                ret.value = << "The weather in ", ret.arg, " is ", W, "." >>
         [] script = "agents/03_basicconfig" ->
              ret.value = << "The weather in ", ret.arg,
                             " is sunny with a temperature of 70 degrees." >>
         [] script \in {"agents/basicconfig", "03_basicconfig"} ->
              ret.value = << "The weather in ", ret.arg, " is sunny" >>
         [] OTHER -> FALSE

\* the voice-agent script's tool has answered snow for Madrid
SnowInMadrid ==
  /\ script = "26_basicvoiceagent" /\ ret.fn = "get_weather"
  /\ ret.value = << "The weather in ", "Madrid", " is ", "snowy", "." >>

\* a step of the interactive mode of 09_running
InInteractive09 == script = "09_running" /\ InLoop
\* the step starts a run, the step ends one with a result
RunStarts == pc = "main" /\ pc' = "running"
RunReturns == pc = "running" /\ pc' = "main" /\ last'.outcome = "output"

\* C14: in the interactive mode of 09_running the input of a run is the
\* history followed by the new user message, and only that message when
\* there is no history; the history is empty when the loop starts, becomes
\* the returned run's full input list (its input and its answer) when a run
\* returns, and is discarded by the line 'new', which triggers no run; no
\* other step changes it.
HistoryThenMessage ==
  [][ InInteractive09 =>
        /\ RunStarts =>
             /\ conv = << >> => last'.input = << line >>
             /\ conv # << >> => last'.input = conv \o << line >>
             /\ Lower(line) # "new"
        /\ RunReturns => conv' = last.input \o << "assistant" >>
        /\ (linesRead' # linesRead /\ Lower(line') = "new") =>
             conv' = << >> /\ pc' = "main" /\ frame' = << >> /\ nRuns' = nRuns
        /\ (~RunReturns /\ ~(linesRead' # linesRead /\ Lower(line') = "new")) =>
             conv' = conv
        /\ linesRead = 0 => conv = << >>
    ]_vars

\* the second turn of a conversation is running on the first turn's input,
\* its answer and the new message
SecondTurnRunsOnHistory ==
  /\ InInteractive09 /\ pc = "running"
  /\ last.input = << "hello", "assistant", "7" >>

\* C15: in the interactive mode of 09_running every turn is traced under
\* the thread id that is current when it runs, so the turns after 'new' are
\* traced under a different group id than the turns before it.
TurnTracedUnderCurrentThread ==
  (InInteractive09 /\ pc = "running") => group = threads

\* the names 'switch <name>' accepts
AgentNames == {"base", "pirate", "robot", "poet", "emoji-pirate"}
\* the line read by this step starts with 'switch '
SwitchLineRead ==
  linesRead' # linesRead /\ Head(Words(Lower(line'))) = "switch "

\* C16: in the interactive mode of 08_basiccloning, 'switch <name>' with
\* name (all that follows 'switch ') one of base, pirate, robot, poet,
\* emoji-pirate makes that agent the current one, with any other name the
\* current agent is left unchanged, and such a line triggers no runner
\* call; no other step changes the current agent, and every run of the
\* loop is a run of the current agent.
SwitchSetsNamedAgentOnly ==
  [][ (script = "08_basiccloning" /\ InLoop) =>
        /\ SwitchLineRead =>
             LET name == Tail(Words(Lower(line')))
             IN /\ IF Len(name) = 1 /\ name[1] \in AgentNames
                   THEN curAgent' = AgentNamed(name[1])
                   ELSE curAgent' = curAgent
                /\ pc' = "main" /\ frame' = << >> /\ nRuns' = nRuns
        /\ ~SwitchLineRead => curAgent' = curAgent
        /\ RunStarts => last'.agent = curAgent
    ]_vars

\* a step of a selection loop: the agents by number, the users by id
InSelectLoop == InLoop /\ LoopStep.kind = "select"
InUserLoop == InLoop /\ LoopStep.kind = "localctx"
\* the step reads the selection of an iteration
SelectionRead == pc = "main" /\ frame = << >> /\ linesRead' # linesRead
\* the number typed, when it is one
Number(l) == IF ParseInt(l).ok THEN ParseInt(l).value ELSE 0

NumberOf(n) ==
  CASE n \in {"2", "02"} -> 2 [] n = "4" -> 4 [] n = "12" -> 12 [] n = "13" -> 13
    [] n = "29" -> 29 [] n = "30" -> 30 [] n = "31" -> 31 [] n = "0999" -> 999
    [] n = "2023" -> 2023 [] n = "2024" -> 2024 [] n = "February" -> 2
    [] n = "April" -> 4 [] OTHER -> 0
\* year y (four digits), month m and day d name a day of the calendar
IsDate(y, m, d) ==
  /\ y \in {"0999", "2023", "2024"}
  /\ NumberOf(m) \in 1..12 /\ m \notin {"0999", "2023", "2024"}
  /\ d \notin {"0999", "2023", "2024", "February", "April"}
  /\ NumberOf(d) >= 1
  /\ NumberOf(d) <= (CASE NumberOf(m) = 2 -> (IF y = "2024" THEN 29 ELSE 28)
                       [] NumberOf(m) = 4 -> 30
                       [] OTHER -> 31)
TwoDigits(n) ==
  CASE NumberOf(n) = 2 -> "02" [] NumberOf(n) = 4 -> "04" [] OTHER -> n
\* the date as YYYY-MM-DD
Iso(y, m, d) == [sep |-> "-", f1 |-> y, f2 |-> TwoDigits(m), f3 |-> TwoDigits(d)]

\* C19: validate_date returns the date rewritten as YYYY-MM-DD when the
\* input matches one of the formats year-month-day, month/day/year,
\* day/month/year or 'Month day, year', using the first of these formats
\* (in that order) that matches, so that a slash date is read month-first
\* whenever that gives a date; it returns the input unchanged when no
\* format matches.
DateRewrittenByFirstFormat ==
  ret.fn = "validate_date" =>
    LET a == ret.arg
    IN ret.value =
         IF a.sep = "-" /\ IsDate(a.f1, a.f2, a.f3) THEN Iso(a.f1, a.f2, a.f3)
         ELSE IF a.sep = "/" /\ IsDate(a.f3, a.f1, a.f2) THEN Iso(a.f3, a.f1, a.f2)
         ELSE IF a.sep = "/" /\ IsDate(a.f3, a.f2, a.f1) THEN Iso(a.f3, a.f2, a.f1)
         ELSE IF a.sep = "B" /\ IsDate(a.f3, a.f1, a.f2) THEN Iso(a.f3, a.f1, a.f2)
         ELSE a

\* a step of a joke workshop of the OpenAI tracing script's loop
InWorkshop == script = "21HighLevelTraces" /\ InLoop

\* C20: joke_workshop of the OpenAI tracing script calls the runner in the
\* order generate, evaluate, and then improve followed by re-evaluate
\* exactly when the rating parsed from the first line of the evaluation is
\* below 7; an evaluation whose first line cannot be parsed as
\* 'label: integer' counts as rating 5; with a rating of 7 or more there
\* are exactly two runs, else four.
WorkshopImprovesBelowSeven ==
  [][ InWorkshop =>
        /\ RunStarts =>
             CASE lineRuns' = 1 -> last'.agent = "joke_agent"
               [] lineRuns' = 2 -> last'.agent = "rating_agent"
               [] lineRuns' = 3 -> last'.agent = "improvement_agent" /\ rating < 7
               [] lineRuns' = 4 -> last'.agent = "rating_agent" /\ rating < 7
               [] OTHER -> FALSE
        /\ (RunReturns /\ lineRuns = 2) =>
             /\ ret'.fn = "rating"
             /\ LET first == ret'.arg[1]
                IN rating' = IF Len(first) >= 2 /\ first[2] = " 8" THEN 8
                             ELSE IF Len(first) >= 2 /\ first[2] = " 7" THEN 7
                             ELSE IF Len(first) >= 2 /\ first[2] = " 3" THEN 3
                             ELSE 5
        /\ ~(RunReturns /\ lineRuns = 2) => rating' = rating
        /\ (RunReturns /\ frame' = << >>) =>
             lineRuns = IF rating' < 7 THEN 4 ELSE 2
    ]_vars

\* the joke is being improved because the evaluation could not be parsed
ImprovedAfterUnparsedRating ==
  /\ InWorkshop /\ pc = "running" /\ cur.agent = "improvement_agent"
  /\ lineRuns = 3 /\ rating = 5

\* C21: main of 13_functiontools prints the tool information, then passes
\* each of the three example queries to the runner in list order, each
\* run completing before the next starts, and then enters the interactive
\* loop.
FunctionToolsQueriesThenLoop ==
  [][ script = "13_functiontools" =>
        /\ ret'.fn = "print_tool_info" => nRuns = 0
        /\ (pc = "main" /\ CurStep.op = "run") =>
             /\ active = 0
             /\ pc' = "running" /\ nRuns' = nRuns + 1
             /\ last'.agent = "agent"
        /\ (InLoop' /\ ~InLoop) => nRuns = 3
    ]_vars

\* the texts of the three experience levels
ExperienceBlocks ==
  [beginner |-> "Use simple explanations",
   intermediate |-> "You can use some technical terms",
   expert |-> "You can use technical language freely"]

\* C22: dynamic_instructions always returns the base block naming the
\* user, adds exactly one experience block when experience_level is
\* exactly 'beginner', 'intermediate' or 'expert' and none for any other
\* value, and adds the respond-in-language block if and only if language
\* differs from the exact string 'English'; the result depends only on the
\* context and the context is not modified.
InstructionsFollowLevelAndLanguage ==
  [][ ret'.fn = "dynamic_instructions" =>
        LET user == ret'.arg
            text == ret'.value
            levels == {i \in DOMAIN text :
                         \E l \in DOMAIN ExperienceBlocks :
                           text[i].block = ExperienceBlocks[l]}
            responds == {i \in DOMAIN text : text[i].block = "Respond in"}
        IN /\ text[1] = Block("The user's name is", << user.name >>)
           /\ text[2].with = << user.language >>
           /\ text[3].with = << user.experience_level >>
           /\ IF user.experience_level \in DOMAIN ExperienceBlocks
              THEN /\ Cardinality(levels) = 1
                   /\ \A i \in levels :
                        text[i].block = ExperienceBlocks[user.experience_level]
              ELSE levels = {}
           /\ IF user.language # "English"
              THEN /\ Cardinality(responds) = 1
                   /\ \A i \in responds : text[i].with = << user.language >>
              ELSE responds = {}
           /\ Len(text) = 4 + Cardinality(levels) + Cardinality(responds)
           /\ \A other \in {"dynamic_agent", "other_agent"} :
                text = dynamic_instructions([context |-> user], other)
           /\ users' = users
    ]_vars

\* the instructions of a user whose level is 'Beginner' and whose
\* language is 'english': no experience block, and the language block
InstructionsForCapitalisedLevel ==
  /\ ret.fn = "dynamic_instructions"
  /\ ret.arg.experience_level = "Beginner" /\ ret.arg.language = "english"
  /\ Len(ret.value) = 5 /\ ret.value[5].block = "Respond in"

\* C23: load_env_from_file treats a missing .env file as a warning only
\* (no variable changes, the script continues); for a file that exists,
\* every line that is neither blank nor starts with '#' after stripping
\* sets os.environ[key] to the text after the line's first '=', a later
\* line or an already set process variable being overridden by the file's
\* last value for that key, and variables not named in the file are left
\* unchanged.
EnvFileLinesSetEnviron ==
  ret.fn = "load_env_from_file" =>
    LET environ == ret.arg.environ
        lines == ret.arg.file.lines
        after == ret.value.environ
        setting == {i \in DOMAIN lines :
                      strip(lines[i]) # << >> /\ Head(strip(lines[i])) # "#"}
        Cut(i) == CHOOSE c \in DOMAIN strip(lines[i]) :
                    /\ strip(lines[i])[c] = "="
                    /\ \A k \in 1..(c - 1) : strip(lines[i])[k] # "="
        KeyOf(i) == SubSeq(strip(lines[i]), 1, Cut(i) - 1)
        ValueOf(i) == SubSeq(strip(lines[i]), Cut(i) + 1, Len(strip(lines[i])))
    IN /\ pc # "crashed"
       /\ ~ret.arg.file.exists =>
            after = environ /\ ret.value.printed = "Warning: .env file not found"
       /\ ret.arg.file.exists =>
            /\ \A i \in setting : \E c \in DOMAIN lines[i] : lines[i][c] = "="
            /\ \A i \in setting :
                 (\A j \in setting : j > i => KeyOf(j) # KeyOf(i)) =>
                   /\ KeyOf(i) \in DOMAIN after
                   /\ after[KeyOf(i)] = ValueOf(i)
            /\ DOMAIN after = DOMAIN environ \cup {KeyOf(i) : i \in setting}
            /\ \A k \in DOMAIN environ :
                 (\A i \in setting : KeyOf(i) # k) => after[k] = environ[k]

====
